---------------------------- MODULE Spec2Model ----------------------------
(***************************************************************************)
(* Model of the QR rendering pipeline of src/src/components/QRGenerator.tsx *)
(* (component QRGenerator): the options / logo state, the hidden canvas     *)
(* and its 2D context, and the asynchronous pipeline generateQR with its    *)
(* three suspension points (await QRCode.toDataURL, qrImg.onload,           *)
(* logoImg.onload).  Every JavaScript callback runs to completion, so each  *)
(* callback is one action.                                                  *)
(***************************************************************************)
EXTENDS Integers, Sequences, FiniteSets, TLC

VARIABLES
    options,      \* useState<QROptions>: the fields that steer the pipeline
    logoFile,     \* useState<File | null>
    logoDataUrl,  \* useState<string>
    fileInput,    \* the file selected in the hidden <input type="file">
    reads,        \* FileReader reads in flight (reader.readAsDataURL)
    qrDataUrl,    \* useState<string>: the displayed artifact
    canvas,       \* canvasRef.current and its 2D context state
    runs,         \* the calls of generateQR, in request order
    toasts,       \* notifications raised so far, by kind
    saved,        \* the file the last click on Download handed to the browser
    events,       \* number of user interactions so far (bounds the model)
    links,        \* WebProfileBuilder: profile.links
    clock         \* Date.now(), in milliseconds from the mount

\* The state of QRGenerator, and the state of both components.
qrVars == <<options, logoFile, logoDataUrl, fileInput, reads, qrDataUrl, canvas, runs, toasts, saved, events>>

vars == <<qrVars, links, clock>>

-----------------------------------------------------------------------------
(* Bounds of the model *)

MaxEvents == 2

\* WebProfileBuilder: links in the profile, and milliseconds that pass.
MaxLinks == 2
MaxClock == 2

-----------------------------------------------------------------------------
(* Program constants *)

FrameExtra == 60
TextSpace == 40
MinSize == 200
MaxSize == 500
SizeStep == 10
DefaultSize == 300
MaxLogoBytes == 5 * 1024 * 1024
CaptionOffset == 25
LogoMargin == 5

NoLogo == ""
NoFile == "null"
NoArtifact == [run |-> 0, width |-> 0, height |-> 0, owner |-> 0, content |-> <<>>]
NoSave == [download |-> <<>>, href |-> NoArtifact]

FrameTypes == {"none", "simple", "rounded", "gradient", "neon", "vintage",
               "speech-bubble", "wavy", "card-style"}
Shapes == {"square", "rounded", "circle", "hexagon"}
SliderSizes == {s \in MinSize..MaxSize : (s - MinSize) % SizeStep = 0}

DefaultText == "https://lovable.dev"
OverCapacityText == "text beyond the capacity of the largest symbol"
DefaultCaption == "Scan Me"

DefaultOptions ==
    [text |-> DefaultText, size |-> DefaultSize,
     foregroundColor |-> "#000000", backgroundColor |-> "#ffffff",
     errorCorrectionLevel |-> "M", margin |-> 4,
     frameType |-> "none", frameColor |-> "#6366f1", shape |-> "square",
     bottomText |-> DefaultCaption, bottomTextColor |-> "#000000",
     bottomTextSize |-> 16]

\* const qrOptions = {...}: the second argument of QRCode.toDataURL, with the
\* payload.  quality is in hundredths.
QrOptions(o) ==
    [text |-> o.text, errorCorrectionLevel |-> o.errorCorrectionLevel,
     type |-> "image/png", quality |-> 92, margin |-> o.margin,
     dark |-> o.foregroundColor, light |-> o.backgroundColor, width |-> o.size]

\* The encoder (QRCode.toDataURL) rejects a payload beyond the capacity of
\* the symbol; every other payload yields a size x size base image.
EncoderAccepts(text) == text # OverCapacityText

-----------------------------------------------------------------------------
(* generateQR: sizing *)

FrameSize_NoExtra(o) == o.size

FrameSize(o) == o.size + (IF o.frameType # "none" THEN FrameExtra ELSE 0)

TotalHeight_NoTextSpace(o) == FrameSize(o)

TotalHeight(o) == FrameSize(o) + (IF o.bottomText # "" THEN TextSpace ELSE 0)

\* The two style-membership tests of generateQR (before and after the symbol).
BackgroundFrameTest_Swapped(ft) == ft # "none" /\ ~(ft \in {"speech-bubble", "wavy", "card-style"})

BackgroundFrameTest(ft) == ft # "none" /\ ft \in {"speech-bubble", "wavy", "card-style"}

BorderFrameTest_AnyStyle(ft) == ft # "none"

BorderFrameTest(ft) == ft # "none" /\ ~(ft \in {"speech-bubble", "wavy", "card-style"})

-----------------------------------------------------------------------------
(* Geometry, in pixels.  The size slider yields multiples of 10, so          *)
(* frameSize * 0.1 and (frameSize - size) / 2 are whole numbers.             *)

\* drawFrame: const padding = frameSize * 0.1
Padding(frameSize) == frameSize \div 10

\* drawFrame: const frameWidth = frameSize - padding * 2 (frameHeight likewise)
FrameWidth(frameSize) == frameSize - Padding(frameSize) * 2

\* drawFrame: the rectangle (padding, padding, frameWidth, frameHeight) every
\* style is painted into.
FrameInset(o) ==
    [x |-> Padding(FrameSize(o)), y |-> Padding(FrameSize(o)),
     w |-> FrameWidth(FrameSize(o)), h |-> FrameWidth(FrameSize(o))]

\* qrImg.onload: qrX = qrY = (frameSize - options.size) / 2; the symbol is
\* drawn into the square (qrX, qrY, size, size).
QrX_Origin(o) == 0

QrX(o) == (FrameSize(o) - o.size) \div 2

SymbolRegion(o) == [x |-> QrX(o), y |-> QrX(o), w |-> o.size, h |-> o.size]

\* applyQRShape: the vertex the hexagon loop adds at step i, as its angle in
\* degrees (i * Math.PI / 3).
HexAngle_Eighth(i) == i * 45

HexAngle(i) == i * 60

\* applyQRShape, case "rounded": const radius = size * 0.1
CornerRadius_Fixed(size) == 20

CornerRadius(size) == size \div 10

\* applyQRShape(ctx, x, y, size): the path built between beginPath and clip.
\* Angles are in degrees; a polygon is the list of the angles of its points
\* on the circle of radius r around (cx, cy).
ShapePath(shape, x, y, size) ==
    CASE shape = "rounded" ->
           [kind |-> "roundRect", x |-> x, y |-> y, w |-> size, h |-> size,
            radius |-> CornerRadius(size)]
      [] shape = "circle" ->
           [kind |-> "arc", cx |-> x + size \div 2, cy |-> y + size \div 2,
            r |-> size \div 2, from |-> 0, to |-> 360]
      [] shape = "hexagon" ->
           [kind |-> "polygon", cx |-> x + size \div 2, cy |-> y + size \div 2,
            r |-> size \div 2,
            points |-> <<0>> \o [i \in 1..6 |-> HexAngle(i)],
            closed |-> TRUE]
      [] OTHER ->
           [kind |-> "rect", x |-> x, y |-> y, w |-> size, h |-> size]

\* logoImg.onload: logoSize = options.size * 0.2, a whole number for the
\* sizes of the slider.
LogoSize(o) == o.size \div 5

\* logoX = logoY = (frameSize - logoSize) / 2
LogoX(o) == (FrameSize(o) - LogoSize(o)) \div 2

LogoRegion(o) == [x |-> LogoX(o), y |-> LogoX(o), w |-> LogoSize(o), h |-> LogoSize(o)]

\* ctx.arc(frameSize / 2, frameSize / 2, logoSize / 2 + 5, 0, 2 * Math.PI)
DiscRadius_NoMargin(o) == LogoSize(o) \div 2

DiscRadius(o) == LogoSize(o) \div 2 + LogoMargin

Disc(o) ==
    [kind |-> "arc", cx |-> FrameSize(o) \div 2, cy |-> FrameSize(o) \div 2,
     r |-> DiscRadius(o), from |-> 0, to |-> 360]

\* ctx.fillText(options.bottomText, frameSize / 2, frameSize + 25)
CaptionAnchor(o) == [x |-> FrameSize(o) \div 2, y |-> FrameSize(o) + CaptionOffset]

\* The strokes of a border-class frame: strokeRect / roundRect + stroke of
\* the rectangle (x, y, w, h) with ctx.lineWidth = lw.
Stroke(x, w, lw) == [x |-> x, y |-> x, w |-> w, h |-> w, lw |-> lw]

FrameStrokes(o) ==
    LET fs == FrameSize(o)
        p  == Padding(fs)
        fw == FrameWidth(fs)
    IN  CASE o.frameType = "simple"   -> {Stroke(p, fw, 8)}
          [] o.frameType = "rounded"  -> {Stroke(p, fw, 8)}
          [] o.frameType = "gradient" -> {Stroke(p, fw, 12)}
          [] o.frameType = "neon"     -> {Stroke(p, fw, 4), Stroke(p + 4, fw - 8, 4)}
          [] o.frameType = "vintage"  -> {Stroke(p, fw, 12), Stroke(p + 4, fw - 8, 4)}
          [] OTHER                    -> {}

\* A stroke of width lw paints the band lw/2 to either side of the outline:
\* the pixels inside the outer rectangle that are not inside the inner one.
StrokeOuter(s) ==
    [x |-> s.x - s.lw \div 2, y |-> s.y - s.lw \div 2, w |-> s.w + s.lw, h |-> s.h + s.lw]

StrokeInner(s) ==
    [x |-> s.x + s.lw \div 2, y |-> s.y + s.lw \div 2, w |-> s.w - s.lw, h |-> s.h - s.lw]

RectsIntersect(a, b) ==
    /\ a.x < b.x + b.w /\ b.x < a.x + a.w
    /\ a.y < b.y + b.h /\ b.y < a.y + a.h

RectInside(a, b) ==
    /\ b.x <= a.x /\ a.x + a.w <= b.x + b.w
    /\ b.y <= a.y /\ a.y + a.h <= b.y + b.h

StrokePaintsInto(s, region) ==
    RectsIntersect(region, StrokeOuter(s)) /\ ~RectInside(region, StrokeInner(s))


-----------------------------------------------------------------------------
(* The canvas and its 2D context.  A canvas operation is named by its kind;  *)
(* its geometry is a function of the options snapshot of the run issuing it. *)

\* The drawing state of a 2D context: what save pushes and restore pops.
NoShadow == [color |-> "transparent", blur |-> 0, dx |-> 0, dy |-> 0]

DefaultDrawState ==
    [clip |-> {}, region |-> {}, fillStyle |-> "#000000",
     font |-> [px |-> 10, family |-> "sans-serif"], textAlign |-> "start",
     stroke |-> [style |-> <<"#000000">>, lineWidth |-> 1], shadow |-> NoShadow]

DrawState(cv) ==
    [clip |-> cv.clip, region |-> cv.region, fillStyle |-> cv.fillStyle,
     font |-> cv.font, textAlign |-> cv.textAlign,
     stroke |-> cv.stroke, shadow |-> cv.shadow]

\* drawFrame, the switch: the style settings each case leaves behind at its
\* break, as changes to the drawing state ds.  A stroke style is the list of
\* its colours: one for a solid colour, the stops for a gradient.
FrameSettings(o, ds) ==
    CASE o.frameType \in {"simple", "rounded"} ->
           [ds EXCEPT !.stroke = [style |-> <<o.frameColor>>, lineWidth |-> 8]]
      [] o.frameType = "gradient" ->
           [ds EXCEPT !.stroke = [style |-> <<o.frameColor, o.backgroundColor, o.frameColor>>,
                                  lineWidth |-> 12]]
      [] o.frameType = "neon" ->
           [ds EXCEPT !.stroke = [style |-> <<o.frameColor>>, lineWidth |-> 4],
                      !.shadow = [@ EXCEPT !.color = o.frameColor, !.blur = 10]]
      [] o.frameType = "vintage" ->
           [ds EXCEPT !.stroke = [style |-> <<o.backgroundColor>>, lineWidth |-> 4]]
      [] o.frameType \in {"speech-bubble", "wavy"} ->
           [ds EXCEPT !.fillStyle = o.frameColor]
      [] o.frameType = "card-style" ->
           [ds EXCEPT !.fillStyle = "#ffffff",
                      !.shadow = [color |-> "transparent", blur |-> 10, dx |-> 3, dy |-> 3]]
      [] OTHER -> ds

\* canvas.width / canvas.height of a fresh <canvas> element, nothing drawn.
BlankCanvas ==
    [width |-> 300, height |-> 150, owner |-> 0, content |-> <<>>,
     stack |-> <<>>, path |-> <<>>,
     clip |-> {}, region |-> {}, fillStyle |-> "#000000",
     font |-> [px |-> 10, family |-> "sans-serif"], textAlign |-> "start",
     stroke |-> [style |-> <<"#000000">>, lineWidth |-> 1], shadow |-> NoShadow]

DrawKinds == {"frame", "symbol", "disc", "logo", "caption"}

\* Assigning canvas.width or canvas.height replaces the bitmap by a blank
\* one and resets the context to its default state.
ResetBitmap(cv, r) ==
    [cv EXCEPT !.content = <<>>, !.stack = <<>>, !.path = <<>>, !.owner = r,
               !.clip = {}, !.region = {}, !.fillStyle = DefaultDrawState.fillStyle,
               !.font = DefaultDrawState.font,
               !.textAlign = DefaultDrawState.textAlign,
               !.stroke = DefaultDrawState.stroke,
               !.shadow = DefaultDrawState.shadow]

\* canvas.toDataURL('image/png'): the bitmap as it is at the call.
Snapshot(cv, r) ==
    [run |-> r, width |-> cv.width, height |-> cv.height, owner |-> cv.owner,
     content |-> cv.content]

\* What a draw call of a run (closure c: its options and logo snapshot)
\* paints, given the drawing state cv it is issued in.
Painted(k, cv, c) ==
    LET o == c.opts
    IN  CASE k = "symbol" ->
               \* ctx.drawImage(qrImg, qrX, qrY, options.size, options.size)
               [img |-> QrOptions(o), at |-> SymbolRegion(o), region |-> cv.region,
                shadow |-> cv.shadow]
          [] k = "disc" ->
               \* ctx.beginPath(); ctx.arc(...); ctx.fill()
               [shape |-> Disc(o), fill |-> cv.fillStyle, shadow |-> cv.shadow]
          [] k = "logo" ->
               \* ctx.drawImage(logoImg, logoX, logoY, logoSize, logoSize)
               [img |-> c.logo, at |-> LogoRegion(o), shadow |-> cv.shadow]
          [] k = "caption" ->
               \* ctx.fillText(options.bottomText, frameSize / 2, frameSize + 25)
               [text |-> o.bottomText, anchor |-> CaptionAnchor(o),
                fill |-> cv.fillStyle, font |-> cv.font, align |-> cv.textAlign,
                shadow |-> cv.shadow]
          [] k = "frame" ->
               [strokes |-> FrameStrokes(o), inset |-> FrameInset(o),
                style |-> o.frameType,
                color |-> o.frameColor]
          [] OTHER -> [none |-> TRUE]

\* One canvas / context call of run r (closure c) on the state
\* st = [cv, url, log]: the canvas, qrDataUrl and the trace of the run.
CanvasStep(st, k, r, c) ==
    LET cv == st.cv
        o  == c.opts
        cv2 ==
          CASE k = "setWidth"  -> [ResetBitmap(cv, r) EXCEPT !.width = FrameSize(o)]
            [] k = "setHeight" -> [ResetBitmap(cv, r) EXCEPT !.height = TotalHeight(o)]
            [] k = "clearRect" ->
                 \* ctx.clearRect(0, 0, frameSize, totalHeight)
                 IF cv.clip = {} /\ cv.width <= FrameSize(o) /\ cv.height <= TotalHeight(o)
                 THEN [cv EXCEPT !.content = <<>>]
                 ELSE cv
            [] k = "save"      -> [cv EXCEPT !.stack = Append(cv.stack, DrawState(cv))]
            [] k = "restore"   ->
                 IF cv.stack = <<>> THEN cv
                 ELSE LET top == cv.stack[Len(cv.stack)]
                      IN  [cv EXCEPT !.clip = top.clip, !.region = top.region,
                                     !.fillStyle = top.fillStyle, !.font = top.font,
                                     !.textAlign = top.textAlign,
                                     !.stroke = top.stroke, !.shadow = top.shadow,
                                     !.stack = SubSeq(cv.stack, 1, Len(cv.stack) - 1)]
            [] k = "beginPath" -> [cv EXCEPT !.path = <<>>]
            [] k = "shapePath" ->
                 [cv EXCEPT !.path = Append(cv.path,
                                            ShapePath(o.shape, QrX(o), QrX(o), o.size))]
            [] k = "clip"      ->
                 [cv EXCEPT !.clip = cv.clip \cup {o.shape},
                            !.region = cv.region \cup {cv.path}]
            [] k = "fillStyle = backgroundColor" ->
                 [cv EXCEPT !.fillStyle = o.backgroundColor]
            [] k = "fillStyle = bottomTextColor" ->
                 [cv EXCEPT !.fillStyle = o.bottomTextColor]
            [] k = "font"      ->
                 [cv EXCEPT !.font = [px |-> o.bottomTextSize, family |-> "Arial"]]
            [] k = "textAlign" -> [cv EXCEPT !.textAlign = "center"]
            [] k = "disc"      ->
                 [cv EXCEPT !.path = <<Disc(o)>>,
                            !.content = Append(cv.content,
                                               [run |-> r, k |-> k, clip |-> cv.clip,
                                                what |-> Painted(k, cv, c)])]
            [] k = "frame"     ->
                 LET ds == FrameSettings(o, DrawState(cv))
                 IN  [cv EXCEPT !.fillStyle = ds.fillStyle, !.stroke = ds.stroke,
                                !.shadow = ds.shadow,
                                !.content = Append(cv.content,
                                                   [run |-> r, k |-> k, clip |-> cv.clip,
                                                    what |-> Painted(k, cv, c)])]
            [] k \in DrawKinds \ {"disc", "frame"} ->
                 [cv EXCEPT !.content = Append(cv.content,
                                               [run |-> r, k |-> k, clip |-> cv.clip,
                                                what |-> Painted(k, cv, c)])]
            [] OTHER           -> cv
        entry == [k |-> k, clip |-> cv.clip, depth |-> Len(cv2.stack)]
    IN  IF k = "emit"
        THEN \* const finalDataUrl = canvas.toDataURL(...); setQrDataUrl(finalDataUrl)
             [cv |-> cv, url |-> Snapshot(cv, r), log |-> Append(st.log, entry)]
        ELSE [st EXCEPT !.cv = cv2, !.log = Append(st.log, entry)]

RECURSIVE Exec(_, _, _, _)
Exec(st, ops, r, c) ==
    IF ops = <<>> THEN st
    ELSE Exec(CanvasStep(st, Head(ops), r, c), Tail(ops), r, c)

-----------------------------------------------------------------------------
(* The drawing routines, as the sequence of context calls each makes *)

ApplyQRShape(o) == <<"save", "beginPath", "shapePath", "clip">>

DrawFrame_NoSave(o) ==
    IF o.frameType \in FrameTypes \ {"none"} THEN <<"frame">> ELSE <<>>

DrawFrame(o) ==
    <<"save">> \o (IF o.frameType \in FrameTypes \ {"none"} THEN <<"frame">> ELSE <<>>)
               \o <<"restore">>

\* if (options.bottomText) { fillStyle, font, textAlign, fillText }
CaptionOps_StaleFill(o) ==
    IF o.bottomText # ""
    THEN <<"font", "textAlign", "caption">>
    ELSE <<>>

CaptionOps(o) ==
    IF o.bottomText # ""
    THEN <<"fillStyle = bottomTextColor", "font", "textAlign", "caption">>
    ELSE <<>>

\* generateQR from the canvas lookup to qrImg.src = dataUrl.
CompositeStart_NoReset(o) ==
    (IF BackgroundFrameTest(o.frameType) THEN DrawFrame(o) ELSE <<>>)
    \o <<"qrImg.src">>

CompositeStart_ClearOnly(o) ==
    <<"clearRect">>
    \o (IF BackgroundFrameTest(o.frameType) THEN DrawFrame(o) ELSE <<>>)
    \o <<"qrImg.src">>

CompositeStart(o) ==
    <<"setWidth", "setHeight", "clearRect">>
    \o (IF BackgroundFrameTest(o.frameType) THEN DrawFrame(o) ELSE <<>>)
    \o <<"qrImg.src">>

\* qrImg.onload
QrImgOnload_NoRestore(o, logo) ==
    <<"qrImg.onload">> \o ApplyQRShape(o) \o <<"symbol">>
    \o (IF BorderFrameTest(o.frameType) THEN DrawFrame(o) ELSE <<>>)
    \o (IF logo # NoLogo THEN <<"logoImg.src">> ELSE CaptionOps(o) \o <<"emit">>)

QrImgOnload_EmitEarly(o, logo) ==
    <<"qrImg.onload">> \o ApplyQRShape(o) \o <<"symbol", "restore">>
    \o (IF BorderFrameTest(o.frameType) THEN DrawFrame(o) ELSE <<>>)
    \o (IF logo # NoLogo THEN <<"emit", "logoImg.src">> ELSE CaptionOps(o) \o <<"emit">>)

QrImgOnload(o, logo) ==
    <<"qrImg.onload">> \o ApplyQRShape(o) \o <<"symbol", "restore">>
    \o (IF BorderFrameTest(o.frameType) THEN DrawFrame(o) ELSE <<>>)
    \o (IF logo # NoLogo THEN <<"logoImg.src">> ELSE CaptionOps(o) \o <<"emit">>)

\* logoImg.onload
LogoImgOnload_CaptionLast(o) ==
    <<"logoImg.onload", "fillStyle = backgroundColor", "disc", "logo", "emit">>
    \o CaptionOps(o)

LogoImgOnload(o) ==
    <<"logoImg.onload", "fillStyle = backgroundColor", "disc", "logo">>
    \o CaptionOps(o) \o <<"emit">>

-----------------------------------------------------------------------------
(* State *)

\* The files the picker offers: one of exactly the limit, one a byte over.
Files == {"logo.png", "huge.png"}

\* With a second, small file that is accepted too.
PickerFiles == Files \cup {"icon.png"}

FileSize(f) ==
    CASE f = "huge.png" -> MaxLogoBytes + 1
      [] f = "icon.png" -> 1024
      [] OTHER          -> MaxLogoBytes

\* handleLogoUpload: if (file.size > 5 * 1024 * 1024)
TooLarge_AtLimit(f) == FileSize(f) >= MaxLogoBytes

TooLarge(f) == FileSize(f) > MaxLogoBytes

\* reader.readAsDataURL(file): the data URL is a function of the file.
DataUrlOf(f) == f

InFlight(run) == run.pc \in {"encoding", "symDecode", "logoDecode"}

NewRun(o, logo, overlapped) ==
    [opts |-> o, logo |-> logo, enc |-> QrOptions(o), pc |-> "encoding",
     log |-> <<>>, overlap |-> overlapped]

\* useEffect(() => { generateQR(); }, [options, logoDataUrl]): the render
\* that follows a state change calls the generateQR closed over its values.
StartRun_Skip(o, logo) == UNCHANGED runs

StartRun(o, logo) ==
    LET busy == \E i \in 1..Len(runs) : InFlight(runs[i])
        marked == [i \in 1..Len(runs) |->
                     IF InFlight(runs[i]) THEN [runs[i] EXCEPT !.overlap = TRUE]
                     ELSE runs[i]]
    IN  runs' = Append(marked, NewRun(o, logo, busy))

Init ==
    /\ options = DefaultOptions
    /\ logoFile = NoFile
    /\ logoDataUrl = NoLogo
    /\ fileInput = NoFile
    /\ reads = {}
    /\ qrDataUrl = NoArtifact
    /\ canvas = BlankCanvas
    /\ runs = <<NewRun(DefaultOptions, NoLogo, FALSE)>>
    /\ toasts = [genFail |-> 0, sizeLimit |-> 0, uploaded |-> 0, removed |-> 0,
                 downloaded |-> 0]
    /\ saved = NoSave
    /\ events = 0
    /\ links = <<>>
    /\ clock = 1

-----------------------------------------------------------------------------
(* Actions *)

\* The values the controls of the settings panel offer in this model.
OptionChoices ==
    [text       |-> {DefaultText, OverCapacityText},
     size       |-> {MinSize, DefaultSize},
     frameType  |-> {"none", "simple"},
     shape      |-> {"square"},
     bottomText |-> {"", DefaultCaption}]

\* A callback of run r: the context calls ops, then the run waits at newpc.
\* The callback is the closure of the render that requested the run: it
\* reads that render's options and logoDataUrl.
RunHandler_LiveState(r, ops, newpc) ==
    LET st == Exec([cv |-> canvas, url |-> qrDataUrl, log |-> runs[r].log],
                   ops, r, [opts |-> options, logo |-> logoDataUrl])
    IN  /\ canvas' = st.cv
        /\ qrDataUrl' = st.url
        /\ runs' = [runs EXCEPT ![r] = [@ EXCEPT !.pc = newpc, !.log = st.log]]

RunHandler(r, ops, newpc) ==
    LET st == Exec([cv |-> canvas, url |-> qrDataUrl, log |-> runs[r].log],
                   ops, r, runs[r])
    IN  /\ canvas' = st.cv
        /\ qrDataUrl' = st.url
        /\ runs' = [runs EXCEPT ![r] = [@ EXCEPT !.pc = newpc, !.log = st.log]]

\* A control of the settings panel: setOptions(prev => ({...prev, f: v})).
SetOption ==
    /\ events < MaxEvents
    /\ events' = events + 1
    /\ \E f \in DOMAIN OptionChoices :
         \E v \in OptionChoices[f] \ {options[f]} :
           options' = [options EXCEPT ![f] = v]
    /\ StartRun(options', logoDataUrl)
    /\ UNCHANGED <<logoFile, logoDataUrl, fileInput, reads, qrDataUrl, canvas, toasts, saved, links, clock>>

\* await QRCode.toDataURL resolves: generateQR runs on to qrImg.src = dataUrl.
EncodeOk(r) ==
    /\ runs[r].pc = "encoding"
    /\ EncoderAccepts(runs[r].opts.text)
    /\ RunHandler(r, CompositeStart(runs[r].opts), "symDecode")
    /\ UNCHANGED <<options, logoFile, logoDataUrl, fileInput, reads, toasts, events, saved, links, clock>>

\* await QRCode.toDataURL rejects: the catch block of generateQR.
EncodeFail_Silent(r) ==
    /\ runs[r].pc = "encoding"
    /\ ~EncoderAccepts(runs[r].opts.text)
    /\ runs' = [runs EXCEPT ![r].pc = "failed"]
    /\ UNCHANGED <<options, logoFile, logoDataUrl, fileInput, reads, qrDataUrl, canvas, toasts, events, saved, links, clock>>

EncodeFail(r) ==
    /\ runs[r].pc = "encoding"
    /\ ~EncoderAccepts(runs[r].opts.text)
    /\ runs' = [runs EXCEPT ![r].pc = "failed"]
    /\ toasts' = [toasts EXCEPT !.genFail = @ + 1]
    /\ UNCHANGED <<options, logoFile, logoDataUrl, fileInput, reads, qrDataUrl, canvas, events, saved, links, clock>>

\* The await resolves but canvasRef.current or getContext('2d') is null:
\* generateQR returns.
SurfaceUnavailable(r) ==
    /\ runs[r].pc = "encoding"
    /\ EncoderAccepts(runs[r].opts.text)
    /\ runs' = [runs EXCEPT ![r].pc = "noSurface"]
    /\ UNCHANGED <<options, logoFile, logoDataUrl, fileInput, reads, qrDataUrl, canvas, toasts, events, saved, links, clock>>

\* qrImg.onload fires.
SymLoad(r) ==
    /\ runs[r].pc = "symDecode"
    /\ RunHandler(r, QrImgOnload(runs[r].opts, runs[r].logo),
                  IF runs[r].logo # NoLogo THEN "logoDecode" ELSE "done")
    /\ UNCHANGED <<options, logoFile, logoDataUrl, fileInput, reads, toasts, events, saved, links, clock>>

\* logoImg.onload fires.
LogoLoad(r) ==
    /\ runs[r].pc = "logoDecode"
    /\ RunHandler(r, LogoImgOnload(runs[r].opts), "done")
    /\ UNCHANGED <<options, logoFile, logoDataUrl, fileInput, reads, toasts, events, saved, links, clock>>

\* handleLogoUpload: the change event of the file input, fired when the
\* selection changes to file f.
HandleLogoUpload_RejectClears(f) ==
    /\ events < MaxEvents
    /\ events' = events + 1
    /\ f # fileInput
    /\ fileInput' = f
    /\ IF TooLarge(f)
       THEN /\ toasts' = [toasts EXCEPT !.sizeLimit = @ + 1]
            /\ logoFile' = NoFile
            /\ logoDataUrl' = NoLogo
            /\ IF logoDataUrl # NoLogo
               THEN StartRun(options, NoLogo)
               ELSE UNCHANGED runs
            /\ UNCHANGED reads
       ELSE /\ logoFile' = f
            /\ reads' = reads \cup {[id |-> events + 1, file |-> f]}
            /\ UNCHANGED <<toasts, logoDataUrl, runs>>
    /\ UNCHANGED <<options, qrDataUrl, canvas, saved, links, clock>>

HandleLogoUpload(f) ==
    /\ events < MaxEvents
    /\ events' = events + 1
    /\ f # fileInput
    /\ fileInput' = f
    /\ IF TooLarge(f)
       THEN /\ toasts' = [toasts EXCEPT !.sizeLimit = @ + 1]
            /\ UNCHANGED <<logoFile, reads>>
       ELSE /\ logoFile' = f
            /\ reads' = reads \cup {[id |-> events + 1, file |-> f]}
            /\ UNCHANGED toasts
    /\ UNCHANGED <<options, logoDataUrl, qrDataUrl, canvas, runs, saved, links, clock>>

\* reader.onload fires: setLogoDataUrl(result), toast.success.
ReaderLoad(rd) ==
    /\ rd \in reads
    /\ reads' = reads \ {rd}
    /\ logoDataUrl' = DataUrlOf(rd.file)
    /\ toasts' = [toasts EXCEPT !.uploaded = @ + 1]
    /\ IF logoDataUrl' # logoDataUrl
       THEN StartRun(options, logoDataUrl')
       ELSE UNCHANGED runs
    /\ UNCHANGED <<options, logoFile, fileInput, qrDataUrl, canvas, events, saved, links, clock>>

\* removeLogo: the Remove button, rendered only while logoFile is set.
RemoveLogo ==
    /\ events < MaxEvents
    /\ events' = events + 1
    /\ logoFile # NoFile
    /\ logoFile' = NoFile
    /\ logoDataUrl' = NoLogo
    /\ fileInput' = NoFile
    /\ toasts' = [toasts EXCEPT !.removed = @ + 1]
    /\ IF logoDataUrl # NoLogo
       THEN StartRun(options, NoLogo)
       ELSE UNCHANGED runs
    /\ UNCHANGED <<options, reads, qrDataUrl, canvas, saved, links, clock>>

\* Date.now() at a click on Download: two consecutive milliseconds, counted
\* from the mount of the component.
Instants == {5000, 5001}

\* link.download = `qr-code-${Date.now()}.png`
FileName(now) == <<"qr-code-", now, ".png">>

\* downloadQR: a click on the Download button at instant now.  The button is
\* disabled while qrDataUrl is empty, and the handler returns at once then.
DownloadQR_Canvas(now) ==
    /\ events < MaxEvents
    /\ events' = events + 1
    /\ IF qrDataUrl = NoArtifact
       THEN UNCHANGED <<saved, toasts>>
       ELSE /\ saved' = [download |-> FileName(now), href |-> Snapshot(canvas, canvas.owner)]
            /\ toasts' = [toasts EXCEPT !.downloaded = @ + 1]
    /\ UNCHANGED <<options, logoFile, logoDataUrl, fileInput, reads, qrDataUrl, canvas, runs,
                   links, clock>>

DownloadQR(now) ==
    /\ events < MaxEvents
    /\ events' = events + 1
    /\ IF qrDataUrl = NoArtifact
       THEN UNCHANGED <<saved, toasts>>
       ELSE /\ saved' = [download |-> FileName(now), href |-> qrDataUrl]
            /\ toasts' = [toasts EXCEPT !.downloaded = @ + 1]
    /\ UNCHANGED <<options, logoFile, logoDataUrl, fileInput, reads, qrDataUrl, canvas, runs,
                   links, clock>>

Next ==
    \/ \E now \in Instants : DownloadQR(now)
    \/ SetOption
    \/ \E r \in 1..Len(runs) : EncodeOk(r)
    \/ \E r \in 1..Len(runs) : EncodeFail(r)
    \/ \E r \in 1..Len(runs) : SurfaceUnavailable(r)
    \/ \E r \in 1..Len(runs) : SymLoad(r)
    \/ \E r \in 1..Len(runs) : LogoLoad(r)
    \/ \E f \in Files : HandleLogoUpload(f)
    \/ \E rd \in reads : ReaderLoad(rd)
    \/ RemoveLogo

Spec == Init /\ [][Next]_vars

-----------------------------------------------------------------------------
(* The logo controls alone, with two acceptable files: uploads, reads and    *)
(* removals in any interleaving, and the renders they start.                 *)

NextLogo ==
    \/ \E f \in PickerFiles : HandleLogoUpload(f)
    \/ \E rd \in reads : ReaderLoad(rd)
    \/ RemoveLogo
    \/ \E r \in 1..Len(runs) : EncodeOk(r)
    \/ \E r \in 1..Len(runs) : SymLoad(r)
    \/ \E r \in 1..Len(runs) : LogoLoad(r)

SpecLogo == Init /\ [][NextLogo]_vars

-----------------------------------------------------------------------------
(* WebProfileBuilder: the list of links of the profile.                      *)

\* link.socialIcon of a link whose URL names no known site.
NoIcon == "undefined"

\* The texts typed into the fields of a link in this model.
LinkFields ==
    [title       |-> {"", "Home"},
     url         |-> {"", "https://x.com/me", "https://example.org"},
     description |-> {"", "About"}]

\* socialMediaDetector, on the URLs of this model: 'x.com' is twitter.
SocialMediaDetector(url) ==
    IF url = "https://x.com/me" THEN "twitter" ELSE "null"

\* Number.prototype.toString: the decimal numeral of n, one per number.
NumberToString(n) == <<"decimal", n>>

\* addLink: the link appended, its id taken from Date.now().
NewLink(now) ==
    [id |-> NumberToString(now), title |-> "", url |-> "", description |-> "",
     socialIcon |-> NoIcon]

AddLink ==
    /\ Len(links) < MaxLinks
    /\ links' = Append(links, NewLink(clock))
    /\ UNCHANGED <<qrVars, clock>>

\* updateLink(id, field, value), called by the inputs of a rendered link.
UpdateLink(id, field, value) ==
    /\ \E i \in 1..Len(links) : links[i].id = id
    /\ links' = [i \in 1..Len(links) |->
                   IF links[i].id = id
                   THEN LET updatedLink == [links[i] EXCEPT ![field] = value]
                        IN  IF field = "url"
                            THEN [updatedLink EXCEPT
                                    !.socialIcon =
                                       IF SocialMediaDetector(value) # "null"
                                       THEN SocialMediaDetector(value)
                                       ELSE NoIcon]
                            ELSE updatedLink
                   ELSE links[i]]
    /\ UNCHANGED <<qrVars, clock>>

\* removeLink(id), called by the trash button of a rendered link.
RemoveLink(id) ==
    /\ \E i \in 1..Len(links) : links[i].id = id
    /\ links' = SelectSeq(links, LAMBDA link : link.id # id)
    /\ UNCHANGED <<qrVars, clock>>

\* A millisecond passes.
Tick ==
    /\ clock < MaxClock
    /\ clock' = clock + 1
    /\ UNCHANGED <<qrVars, links>>

LinkIds == {links[i].id : i \in 1..Len(links)}

NextLinks ==
    \/ AddLink
    \/ \E id \in LinkIds, field \in DOMAIN LinkFields :
         \E value \in LinkFields[field] : UpdateLink(id, field, value)
    \/ \E id \in LinkIds : RemoveLink(id)
    \/ Tick

SpecLinks == Init /\ [][NextLinks]_vars

-----------------------------------------------------------------------------
(* One render, for every value of the options: the inputs of the pipeline   *)
(* are drawn from the whole range of the controls and one run is followed.  *)

\* Colour and caption-size settings: the defaults and two others, with the
\* ends of the caption-size slider.
Palettes ==
    {[backgroundColor |-> "#ffffff", bottomTextColor |-> "#000000", bottomTextSize |-> 16],
     [backgroundColor |-> "#fde68a", bottomTextColor |-> "#1e3a8a", bottomTextSize |-> 12],
     [backgroundColor |-> "#111827", bottomTextColor |-> "#f9fafb", bottomTextSize |-> 24]}

AllOptions ==
    {[DefaultOptions EXCEPT !.text = t, !.size = s, !.frameType = ft,
                            !.shape = sh, !.bottomText = b,
                            !.backgroundColor = p.backgroundColor,
                            !.bottomTextColor = p.bottomTextColor,
                            !.bottomTextSize = p.bottomTextSize] :
       t \in {DefaultText, OverCapacityText}, s \in SliderSizes,
       ft \in FrameTypes, sh \in Shapes, b \in {"", DefaultCaption},
       p \in Palettes}

InitRender ==
    /\ options \in AllOptions
    /\ logoDataUrl \in {NoLogo, DataUrlOf("logo.png")}
    /\ logoFile = (IF logoDataUrl = NoLogo THEN NoFile ELSE "logo.png")
    /\ fileInput = logoFile
    /\ reads = {}
    /\ qrDataUrl = NoArtifact
    /\ canvas = BlankCanvas
    /\ runs = <<NewRun(options, logoDataUrl, FALSE)>>
    /\ toasts = [genFail |-> 0, sizeLimit |-> 0, uploaded |-> 0, removed |-> 0,
                 downloaded |-> 0]
    /\ saved = NoSave
    /\ events = 0
    /\ links = <<>>
    /\ clock = 1

NextRender ==
    \/ \E r \in 1..Len(runs) : EncodeOk(r)
    \/ \E r \in 1..Len(runs) : EncodeFail(r)
    \/ \E r \in 1..Len(runs) : SurfaceUnavailable(r)
    \/ \E r \in 1..Len(runs) : SymLoad(r)
    \/ \E r \in 1..Len(runs) : LogoLoad(r)

SpecRender == InitRender /\ [][NextRender]_vars

-----------------------------------------------------------------------------
(* Properties *)

Runs == 1..Len(runs)

\* The positions of the calls of kind k in a trace, and the first of them.
Idx(log, k) == {i \in 1..Len(log) : log[i].k = k}

First(log, k) ==
    IF Idx(log, k) = {} THEN 0
    ELSE CHOOSE i \in Idx(log, k) : \A j \in Idx(log, k) : i <= j

Composited(run) == run.pc \in {"symDecode", "logoDecode", "done"}

BackgroundStyles == {"speech-bubble", "wavy", "card-style"}
BorderStyles == {"simple", "rounded", "gradient", "neon", "vintage"}

\* C1: the canvas of a run is frameSize x totalHeight, where frameSize is
\* size + 60 with a frame and size without, and totalHeight is frameSize + 40
\* with a caption and frameSize without; the artifact has the same size.
C1_CanvasSize ==
    \A r \in Runs :
      LET o  == runs[r].opts
          fs == IF o.frameType # "none" THEN o.size + 60 ELSE o.size
          th == IF o.bottomText # "" THEN fs + 40 ELSE fs
      IN  /\ Composited(runs[r]) => canvas.owner = r
          /\ canvas.owner = r => canvas.width = fs /\ canvas.height = th
          /\ qrDataUrl.run = r => qrDataUrl.width = fs /\ qrDataUrl.height = th
          /\ (canvas.owner = r /\ o.size = 300 /\ o.frameType = "simple" /\ o.bottomText = "")
               => canvas.width = 360 /\ canvas.height = 360
          /\ (canvas.owner = r /\ o.size = 300 /\ o.frameType = "none" /\ o.bottomText # "")
               => canvas.width = 300 /\ canvas.height = 340

C1_Witness ==
    \E r \in Runs :
      /\ runs[r].pc = "done"
      /\ runs[r].opts.size = 300
      /\ runs[r].opts.frameType = "simple"
      /\ runs[r].opts.bottomText = ""
      /\ qrDataUrl.run = r
      /\ qrDataUrl.width = 360 /\ qrDataUrl.height = 360

\* C2: in every run a frame of a background style (speech-bubble, wavy,
\* card-style) is painted before the symbol is drawn, and a frame of a border
\* style (simple, rounded, gradient, neon, vintage) is painted after the
\* symbol draw and after the clip of the symbol has been released.
C2_FrameOrder ==
    \A r \in Runs :
      LET log == runs[r].log
          ft  == runs[r].opts.frameType
          sym == First(log, "symbol")
          fr  == First(log, "frame")
      IN  /\ (ft \in BackgroundStyles /\ Composited(runs[r]))
               => fr > 0 /\ (sym > 0 => fr < sym)
          /\ (ft \in BorderStyles /\ sym = 0) => fr = 0
          /\ (ft \in BorderStyles /\ sym > 0)
               => /\ fr > sym + 1
                  /\ log[sym + 1].k = "restore"
                  /\ log[fr].clip = {}

C2_Witness ==
    \E r \in Runs :
      /\ runs[r].pc = "done"
      /\ runs[r].opts.frameType = "wavy"
      /\ runs[r].opts.shape = "circle"
      /\ First(runs[r].log, "frame") > 0
      /\ First(runs[r].log, "frame") < First(runs[r].log, "symbol")

\* C3: once every pending completion has fired, the displayed artifact is
\* the one produced by the most recently requested run (whose encoding
\* succeeded), whatever the order of the completions.
C3_LastRequestWins ==
    LET last == Len(runs)
    IN  ((\A r \in Runs : ~InFlight(runs[r])) /\ runs[last].pc = "done")
          => /\ qrDataUrl.run = last
             /\ qrDataUrl.owner = last
             /\ \A i \in 1..Len(qrDataUrl.content) : qrDataUrl.content[i].run = last

\* C4: every serialization reads a canvas that the serializing run has reset
\* and sized and that carries no draw of any other run.  qrDataUrl holds each
\* serialization from the moment it is made.
C4_SerializationReadsOwnCanvas ==
    qrDataUrl # NoArtifact =>
      LET r == qrDataUrl.run
      IN  /\ qrDataUrl.owner = r
          /\ qrDataUrl.width = FrameSize(runs[r].opts)
          /\ qrDataUrl.height = TotalHeight(runs[r].opts)
          /\ \A i \in 1..Len(qrDataUrl.content) : qrDataUrl.content[i].run = r

\* C5: when the encoder rejects the payload the run ends there: that step
\* leaves the canvas and the displayed artifact as they were, raises exactly
\* one failure notification and starts no run; the failed run has made no
\* canvas call and never resumes.
EncoderRejected(r) ==
    /\ runs[r].pc = "encoding"
    /\ runs[r].opts.text = OverCapacityText
    /\ runs'[r].pc # "encoding"

C5_FailedRunsInert ==
    /\ \A r \in Runs : runs[r].pc = "failed" =>
         runs[r].log = <<>> /\ runs[r].opts.text = OverCapacityText
    /\ \A r \in Runs : runs[r].opts.text = OverCapacityText =>
         runs[r].pc \in {"encoding", "failed"} /\ qrDataUrl.run # r /\ canvas.owner # r
    /\ toasts.genFail = Cardinality({r \in Runs : runs[r].pc = "failed"})

C5_EncoderFailureAborts ==
    /\ []C5_FailedRunsInert
    /\ [][\A r \in Runs :
            /\ EncoderRejected(r) =>
                 /\ runs'[r].pc = "failed"
                 /\ canvas' = canvas
                 /\ qrDataUrl' = qrDataUrl
                 /\ toasts'.genFail = toasts.genFail + 1
                 /\ Len(runs') = Len(runs)
            /\ runs[r].pc = "failed" => runs'[r] = runs[r]]_vars

C5_Witness ==
    \E r \in Runs :
      /\ runs[r].pc = "failed"
      /\ toasts.genFail = 1
      /\ qrDataUrl # NoArtifact
      /\ qrDataUrl.run < r
      /\ \A q \in Runs : ~InFlight(runs[q])

\* C6: in each run the symbol draw, a border-style frame, the logo disc, the
\* logo, the caption and the serialization all come after the symbol image
\* has decoded (qrImg.onload); with a logo, the disc, the logo, the caption
\* and the serialization come only after the logo image has decoded
\* (logoImg.onload), while the symbol and the border frame are drawn before.
AfterMark(log, i, mark) == First(log, mark) > 0 /\ First(log, mark) < i

C6_DecodeGates ==
    \A r \in Runs :
      LET log    == runs[r].log
          o      == runs[r].opts
          border == o.frameType \in BorderStyles
      IN  /\ \A i \in 1..Len(log) :
               /\ (log[i].k \in {"symbol", "disc", "logo", "caption", "emit"}
                     \/ (log[i].k = "frame" /\ border))
                    => AfterMark(log, i, "qrImg.onload")
               /\ (runs[r].logo # NoLogo /\ log[i].k \in {"disc", "logo", "caption", "emit"})
                    => AfterMark(log, i, "logoImg.onload")
               /\ (runs[r].logo # NoLogo /\ log[i].k = "logoImg.onload")
                    => /\ AfterMark(log, i, "symbol")
                       /\ border => AfterMark(log, i, "frame")
          /\ runs[r].pc \in {"encoding", "symDecode", "failed"}
               => \A i \in 1..Len(log) :
                    /\ log[i].k \notin {"symbol", "disc", "logo", "caption", "emit"}
                    /\ border => log[i].k # "frame"
          /\ (runs[r].logo # NoLogo /\ runs[r].pc # "done")
               => \A i \in 1..Len(log) :
                    log[i].k \notin {"disc", "logo", "caption", "emit"}
          /\ (runs[r].logo # NoLogo /\ runs[r].pc = "logoDecode")
               => /\ Idx(log, "logoImg.onload") = {}
                  /\ Idx(log, "symbol") # {}
                  /\ border => Idx(log, "frame") # {}

C6_Witness ==
    \E r \in Runs :
      /\ runs[r].logo # NoLogo
      /\ runs[r].pc = "logoDecode"
      /\ runs[r].opts.frameType = "neon"
      /\ Idx(runs[r].log, "symbol") # {}
      /\ Idx(runs[r].log, "frame") # {}
      /\ Idx(runs[r].log, "logoImg.onload") = {}
      /\ qrDataUrl = NoArtifact

\* C7: a run emits its artifact at most once, as its last step: after the
\* symbol, after a border-style frame, after the disc and the logo when there
\* is a logo, after the caption when bottomText is non-empty; the caption
\* comes after the logo.  A run has emitted exactly when it is done.
C7_EmitOnceLast ==
    \A r \in Runs :
      LET log == runs[r].log
          o   == runs[r].opts
          e   == First(log, "emit")
      IN  /\ Cardinality(Idx(log, "emit")) <= 1
          /\ (runs[r].pc = "done") <=> (e > 0)
          /\ e > 0 =>
               /\ e = Len(log)
               /\ AfterMark(log, e, "symbol")
               /\ o.frameType \in BorderStyles =>
                    First(log, "symbol") < First(log, "frame") /\ First(log, "frame") < e
               /\ Cardinality(Idx(log, "frame")) = (IF o.frameType = "none" THEN 0 ELSE 1)
               /\ IF runs[r].logo # NoLogo
                  THEN /\ First(log, "symbol") < First(log, "disc")
                       /\ First(log, "disc") < First(log, "logo")
                       /\ First(log, "logo") < e
                  ELSE Idx(log, "disc") = {} /\ Idx(log, "logo") = {}
               /\ IF o.bottomText # ""
                  THEN /\ AfterMark(log, e, "caption")
                       /\ First(log, "symbol") < First(log, "caption")
                       /\ First(log, "logo") < First(log, "caption")
                       /\ First(log, "caption") = e - 1
                  ELSE Idx(log, "caption") = {}

C7_Witness ==
    \E r \in Runs :
      /\ runs[r].pc = "done"
      /\ runs[r].logo # NoLogo
      /\ runs[r].opts.bottomText # ""
      /\ runs[r].opts.frameType = "vintage"
      /\ qrDataUrl.run = r
      /\ Cardinality(Idx(runs[r].log, "emit")) = 1

\* C8: every run sets the canvas to frameSize x totalHeight and clears it
\* before its first draw, and the artifact of a run that overlaps no other
\* run holds only what that run drew.
C8_CanvasResetPerRun ==
    /\ \A r \in Runs :
         LET log == runs[r].log
         IN  /\ Composited(runs[r]) =>
                  /\ Len(log) >= 3
                  /\ log[1].k = "setWidth" /\ log[2].k = "setHeight" /\ log[3].k = "clearRect"
             /\ \A i \in 1..Len(log) : log[i].k \in DrawKinds => i > 3
    /\ (qrDataUrl # NoArtifact /\ ~runs[qrDataUrl.run].overlap) =>
         /\ qrDataUrl.owner = qrDataUrl.run
         /\ qrDataUrl.width = FrameSize(runs[qrDataUrl.run].opts)
         /\ qrDataUrl.height = TotalHeight(runs[qrDataUrl.run].opts)
         /\ \A i \in 1..Len(qrDataUrl.content) :
              qrDataUrl.content[i].run = qrDataUrl.run

C8_Witness ==
    \E r \in Runs :
      /\ r > 1
      /\ runs[r - 1].pc = "done"
      /\ ~runs[r].overlap
      /\ runs[r].pc = "done"
      /\ runs[r].opts.size # runs[r - 1].opts.size
      /\ qrDataUrl.run = r
      /\ qrDataUrl.content # <<>>

\* C9: the clip of applyQRShape is active only while the symbol is drawn: the
\* symbol is drawn under the clip of the run's shape and the state is
\* restored right after it, every frame, the logo disc, the logo and the
\* caption are drawn with no clip, and when a callback ends the context has
\* no saved state and no clip left.
C9_ClipScoped ==
    /\ canvas.stack = <<>>
    /\ canvas.clip = {}
    /\ \A r \in Runs :
         LET log == runs[r].log
         IN  \A i \in 1..Len(log) :
               /\ log[i].k = "symbol" =>
                    /\ log[i].clip = {runs[r].opts.shape}
                    /\ i < Len(log)
                    /\ log[i + 1].k = "restore"
                    /\ log[i + 1].depth = 0
               /\ log[i].k \in {"frame", "disc", "logo", "caption"} => log[i].clip = {}
               /\ log[i].k = "emit" => log[i].clip = {} /\ log[i].depth = 0

C9_Witness ==
    \E r \in Runs :
      /\ runs[r].pc = "done"
      /\ runs[r].opts.shape = "hexagon"
      /\ runs[r].opts.frameType = "gradient"
      /\ runs[r].logo # NoLogo
      /\ runs[r].opts.bottomText # ""
      /\ \E i \in 1..Len(runs[r].log) :
           runs[r].log[i].k = "symbol" /\ runs[r].log[i].clip = {"hexagon"}

\* C10: for every size of the slider and every border style, the strokes of
\* the frame paint no pixel of the size x size symbol region at
\* ((frameSize - size) / 2, (frameSize - size) / 2).
C10_BorderFrameClearOfSymbol ==
    \A r \in Runs :
      LET o == runs[r].opts
      IN  (o.frameType \in BorderStyles
             /\ o.size \in SliderSizes
             /\ Idx(runs[r].log, "symbol") # {}
             /\ Idx(runs[r].log, "frame") # {})
            => \A s \in FrameStrokes(o) : ~StrokePaintsInto(s, SymbolRegion(o))

\* C11: handleLogoUpload accepts the picked file if and only if its size is
\* at most 5 * 1024 * 1024 bytes.  A larger file raises one size-limit
\* notification, starts no read and leaves logoFile and logoDataUrl alone; an
\* accepted file sets logoFile and starts one read, and the completion of a
\* read sets logoDataUrl and raises one success notification.
C11_UploadSizeLimit ==
    [][ /\ (fileInput' # fileInput /\ fileInput' # NoFile) =>
             LET f == fileInput'
             IN  IF FileSize(f) <= 5 * 1024 * 1024
                 THEN /\ logoFile' = f
                      /\ \E rd \in reads' \ reads :
                            rd.file = f /\ reads' = reads \cup {rd}
                      /\ toasts' = toasts
                      /\ logoDataUrl' = logoDataUrl
                 ELSE /\ toasts' = [toasts EXCEPT !.sizeLimit = @ + 1]
                      /\ reads' = reads
                      /\ logoFile' = logoFile
                      /\ logoDataUrl' = logoDataUrl
                      /\ runs' = runs
        /\ (toasts'.sizeLimit # toasts.sizeLimit) =>
             (fileInput' \in Files /\ FileSize(fileInput') > 5 * 1024 * 1024)
        /\ (reads' # reads /\ reads' \subseteq reads) =>
             \E rd \in reads \ reads' :
               /\ reads' = reads \ {rd}
               /\ FileSize(rd.file) <= 5 * 1024 * 1024
               /\ logoDataUrl' = DataUrlOf(rd.file)
               /\ toasts' = [toasts EXCEPT !.uploaded = @ + 1]
        /\ (toasts'.uploaded # toasts.uploaded) => reads' # reads
      ]_vars

\* A file of exactly the limit has been accepted and read, and a file one
\* byte over has been rejected.
C11_Witness ==
    /\ logoFile = "logo.png"
    /\ FileSize(logoFile) = 5 * 1024 * 1024
    /\ logoDataUrl = DataUrlOf("logo.png")
    /\ toasts.uploaded = 1
    /\ fileInput = "huge.png"
    /\ toasts.sizeLimit = 1

\* C12 as stated: the step that rejects an oversized file leaves logoDataUrl
\* unset, whatever logo state preceded it.
C12_RejectionUnsetsLogo ==
    [][(toasts'.sizeLimit # toasts.sizeLimit) => logoDataUrl' = NoLogo]_vars

\* C12, amended: the step that rejects an oversized file keeps logoFile and
\* logoDataUrl as they were and starts neither a read nor a run, so the
\* rejected file never reaches a run: a logo set before stays in use, and
\* with no logo set before logoDataUrl stays unset.  The artifact of a run
\* started without a logo, overlapping no other run, holds no disc and no logo.
C12_RejectionKeepsLogoState ==
    /\ [][(toasts'.sizeLimit # toasts.sizeLimit) =>
            /\ logoDataUrl' = logoDataUrl
            /\ logoFile' = logoFile
            /\ reads' = reads
            /\ runs' = runs]_vars
    /\ [](/\ \A r \in Runs :
               runs[r].logo # NoLogo =>
                 \E f \in Files : /\ runs[r].logo = DataUrlOf(f)
                                  /\ FileSize(f) <= 5 * 1024 * 1024
           /\ (qrDataUrl # NoArtifact
                 /\ runs[qrDataUrl.run].logo = NoLogo
                 /\ ~runs[qrDataUrl.run].overlap)
                => \A i \in 1..Len(qrDataUrl.content) :
                     qrDataUrl.content[i].k \notin {"disc", "logo"})

\* A logo was uploaded, then an oversized file was rejected, and the artifact
\* on display is the one with the logo that preceded the rejection.
C12_Witness ==
    /\ toasts.sizeLimit = 1
    /\ fileInput = "huge.png"
    /\ logoDataUrl = DataUrlOf("logo.png")
    /\ qrDataUrl # NoArtifact
    /\ runs[qrDataUrl.run].logo = logoDataUrl
    /\ \E i \in 1..Len(qrDataUrl.content) : qrDataUrl.content[i].k = "logo"
    /\ \A r \in Runs : ~InFlight(runs[r])

\* C13: when the canvas or its 2D context cannot be acquired the run stops
\* before any draw, emits nothing, leaves qrDataUrl as it was, and the
\* failure is reported to the user once.
C13_SurfaceFailureReported ==
    [][\A r \in Runs :
         (runs[r].pc = "encoding" /\ runs'[r].pc = "noSurface") =>
           /\ runs'[r].log = <<>>
           /\ canvas' = canvas
           /\ qrDataUrl' = qrDataUrl
           /\ toasts'.genFail = toasts.genFail + 1]_vars

\* C14: no run ends silently: a run that has ended either emitted its
\* artifact or raised a failure notification.
C14_NoSilentEnd ==
    LET Ended   == {r \in Runs : ~InFlight(runs[r])}
        Emitted == {r \in Ended : runs[r].pc = "done"}
    IN  Cardinality(Ended \ Emitted) = toasts.genFail

\* C15: the mount starts one run, and every change of the options or of the
\* logo data starts exactly one run, at the encoder with an empty trace, on
\* the changed options and logo; the changing step draws nothing itself, and
\* no run is started without such a change.
C15_ChangeStartsFullRun ==
    /\ [](/\ Len(runs) >= 1
           /\ runs[1].opts = DefaultOptions
           /\ runs[1].logo = NoLogo)
    /\ [][IF options' # options \/ logoDataUrl' # logoDataUrl
          THEN /\ Len(runs') = Len(runs) + 1
               /\ runs'[Len(runs')].pc = "encoding"
               /\ runs'[Len(runs')].log = <<>>
               /\ runs'[Len(runs')].opts = options'
               /\ runs'[Len(runs')].logo = logoDataUrl'
               /\ \A r \in Runs : /\ runs'[r].pc = runs[r].pc
                                   /\ runs'[r].log = runs[r].log
               /\ canvas' = canvas
               /\ qrDataUrl' = qrDataUrl
          ELSE Len(runs') = Len(runs)]_vars

\* Three runs: the mount, an option change, and the completion of a logo read.
C15_Witness ==
    /\ Len(runs) = 3
    /\ runs[2].opts # runs[1].opts
    /\ runs[2].logo = NoLogo
    /\ runs[3].opts = runs[2].opts
    /\ runs[3].logo = DataUrlOf("logo.png")
    /\ runs[3].pc = "done"

\* The draws of kind k on the canvas, as indices into canvas.content.
Drawn(k) == {i \in 1..Len(canvas.content) : canvas.content[i].k = k}

OptsOf(i) == runs[canvas.content[i].run].opts

\* C16 as stated: the backing disc of the logo has radius size / 10 + 5, is
\* filled with backgroundColor, is painted before the logo and is centered at
\* the center of the frameSize x totalHeight canvas.
C16_DiscAtCanvasCenter ==
    \A i \in Drawn("disc") :
      LET d == canvas.content[i].what
      IN  /\ 10 * (d.shape.r - 5) = OptsOf(i).size
          /\ d.fill = OptsOf(i).backgroundColor
          /\ i + 1 \in Drawn("logo")
          /\ 2 * d.shape.cx = canvas.width
          /\ 2 * d.shape.cy = canvas.height

\* C16, amended: the backing disc of the logo is a full circle of radius
\* size / 10 + 5, filled with backgroundColor, painted right before the
\* logo, and centered at (frameSize / 2, frameSize / 2), the center of the
\* frameSize x frameSize area; that is the center of the canvas exactly when
\* there is no caption.
C16_DiscGeometry ==
    \A i \in Drawn("disc") :
      LET d == canvas.content[i].what
          o == OptsOf(i)
      IN  /\ 10 * (d.shape.r - 5) = o.size
          /\ d.shape.to - d.shape.from = 360
          /\ d.fill = o.backgroundColor
          /\ i + 1 \in Drawn("logo")
          /\ Drawn("logo") = {i + 1}
          /\ 2 * d.shape.cx = FrameSize(o)
          /\ 2 * d.shape.cy = FrameSize(o)
          /\ canvas.width = FrameSize(o)
          /\ (2 * d.shape.cy = canvas.height) <=> (o.bottomText = "")

\* A logo run with a frame and a caption is done: the disc is above the
\* center of the canvas.
C16_Witness ==
    /\ runs[1].pc = "done"
    /\ runs[1].opts.frameType = "card-style"
    /\ runs[1].opts.shape = "rounded"
    /\ runs[1].opts.bottomText # ""
    /\ runs[1].opts.backgroundColor = "#fde68a"
    /\ \E i \in Drawn("disc") :
         /\ canvas.content[i].what.fill = "#fde68a"
         /\ 2 * canvas.content[i].what.shape.cy < canvas.height

\* C17: the symbol is drawn into a square of side size centered in the
\* frameSize x frameSize area, and the logo into a square of side size / 5
\* with the same center, for every frame type and shape.
C17_SymbolAndLogoCentered ==
    /\ \A i \in Drawn("symbol") :
         LET a == canvas.content[i].what.at
             o == OptsOf(i)
         IN  /\ a.w = o.size /\ a.h = o.size
             /\ a.x = a.y
             /\ 2 * a.x + a.w = FrameSize(o)
             /\ 2 * a.x = FrameSize(o) - o.size
             /\ canvas.width = FrameSize(o)
    /\ \A i \in Drawn("logo") :
         LET l == canvas.content[i].what.at
             o == OptsOf(i)
         IN  /\ 5 * l.w = o.size /\ l.h = l.w
             /\ \E j \in Drawn("symbol") :
                  LET a == canvas.content[j].what.at
                  IN  /\ j < i
                      /\ 2 * l.x + l.w = 2 * a.x + a.w
                      /\ 2 * l.y + l.h = 2 * a.y + a.h

C17_Witness ==
    /\ runs[1].pc = "done"
    /\ runs[1].opts.frameType = "neon"
    /\ runs[1].opts.shape = "circle"
    /\ runs[1].opts.size = MaxSize
    /\ \E i \in Drawn("symbol") : canvas.content[i].what.at.x = 30
    /\ \E i \in Drawn("logo") : canvas.content[i].what.at.w = 100

\* The symbol draw a caption was painted below.
SymbolUnder(i) ==
    {canvas.content[j].what.at : j \in {j \in Drawn("symbol") : j < i}}

\* C18 as stated: the caption is anchored 25 px below the bottom edge of
\* the symbol region.
C18_CaptionBelowSymbol ==
    \A i \in Drawn("caption") :
      \A a \in SymbolUnder(i) :
        canvas.content[i].what.anchor.y = a.y + a.h + 25

\* C18, amended: a non-empty bottomText is drawn center-aligned at
\* x = frameSize / 2 with its anchor at y = frameSize + 25, 25 px below the
\* frameSize x frameSize area (the bottom edge of the symbol only for
\* frameType none), in bottomTextColor at bottomTextSize px, with or without
\* a logo; an empty bottomText draws no caption.
C18_CaptionPlacement ==
    /\ \A i \in Drawn("caption") :
         LET c == canvas.content[i].what
             o == OptsOf(i)
         IN  /\ o.bottomText # ""
             /\ c.text = o.bottomText
             /\ c.align = "center"
             /\ 2 * c.anchor.x = FrameSize(o)
             /\ c.anchor.y = FrameSize(o) + 25
             /\ c.anchor.y < canvas.height
             /\ c.fill = o.bottomTextColor
             /\ c.font.px = o.bottomTextSize
             /\ \A a \in SymbolUnder(i) :
                  (c.anchor.y = a.y + a.h + 25) <=> (o.frameType = "none")
    /\ \A r \in Runs :
         runs[r].pc = "done" =>
           ((Idx(runs[r].log, "caption") # {}) <=> (runs[r].opts.bottomText # ""))

C18_Witness ==
    /\ runs[1].pc = "done"
    /\ runs[1].logo # NoLogo
    /\ runs[1].opts.frameType = "vintage"
    /\ runs[1].opts.bottomTextSize = 24
    /\ \E i \in Drawn("caption") :
         /\ canvas.content[i].what.font.px = 24
         /\ canvas.content[i].what.fill = "#f9fafb"
         /\ canvas.content[i].what.anchor.y = runs[1].opts.size + 85

\* C19: a circle symbol is drawn under the clip of the full circle of radius
\* size / 2 around the center of its square; a hexagon symbol under the clip
\* of the closed polygon whose points lie at radius size / 2 around that
\* center, start at angle 0, advance by 60 degrees and make exactly the six
\* distinct vertices at 0, 60, ..., 300 degrees.
C19_ShapeClip ==
    \A i \in Drawn("symbol") :
      LET w == canvas.content[i].what
          a == w.at
          o == OptsOf(i)
      IN  o.shape \in {"circle", "hexagon"} =>
            \E p \in {path[1] : path \in w.region} :
              /\ w.region = {<<p>>}
              /\ 2 * p.cx = 2 * a.x + a.w
              /\ 2 * p.cy = 2 * a.y + a.h
              /\ 2 * p.r = o.size
              /\ o.shape = "circle" =>
                    p.kind = "arc" /\ p.to - p.from = 360
              /\ o.shape = "hexagon" =>
                    /\ p.kind = "polygon"
                    /\ p.closed
                    /\ p.points[1] = 0
                    /\ \A n \in 1..(Len(p.points) - 1) :
                         p.points[n + 1] - p.points[n] = 60
                    /\ {p.points[n] % 360 : n \in 1..Len(p.points)}
                         = {k * 60 : k \in 0..5}
                    /\ p.points[Len(p.points)] % 360 = p.points[1]

C19_Witness ==
    /\ runs[1].pc = "done"
    /\ runs[1].opts.shape = "hexagon"
    /\ runs[1].opts.frameType = "wavy"
    /\ \E i \in Drawn("symbol") :
         \E path \in canvas.content[i].what.region :
           /\ path[1].kind = "polygon"
           /\ Len(path[1].points) = 7
           /\ canvas.content[i].clip = {"hexagon"}

\* The bitmap of an artifact, without the tags that tell runs apart.
Bitmap(url) ==
    [width |-> url.width, height |-> url.height,
     content |-> [i \in 1..Len(url.content) |->
                    [k |-> url.content[i].k, clip |-> url.content[i].clip,
                     what |-> url.content[i].what]]]

\* The callbacks of one run on options o and logo, alone on a fresh canvas.
Alone(o, logo) ==
    LET c   == [opts |-> o, logo |-> logo]
        st0 == [cv |-> BlankCanvas, url |-> NoArtifact, log |-> <<>>]
        st1 == Exec(st0, CompositeStart(o), 0, c)
        st2 == Exec(st1, QrImgOnload(o, logo), 0, c)
    IN  IF logo # NoLogo THEN Exec(st2, LogoImgOnload(o), 0, c) ELSE st2

\* C20: runs on identical options and logo pass identical arguments to the
\* encoder; if neither overlaps another run they make the identical sequence
\* of canvas calls, and the artifact of a run that overlaps no other is the
\* one its options and logo yield on a fresh canvas, whatever was rendered
\* before, so two such runs yield identical artifacts.
C20_Deterministic ==
    /\ \A r1, r2 \in Runs :
         (runs[r1].opts = runs[r2].opts /\ runs[r1].logo = runs[r2].logo) =>
           /\ runs[r1].enc = runs[r2].enc
           /\ (runs[r1].pc = "done" /\ runs[r2].pc = "done"
                 /\ ~runs[r1].overlap /\ ~runs[r2].overlap)
                => runs[r1].log = runs[r2].log
    /\ (qrDataUrl # NoArtifact /\ ~runs[qrDataUrl.run].overlap) =>
         LET run == runs[qrDataUrl.run]
         IN  /\ Bitmap(qrDataUrl) = Bitmap(Alone(run.opts, run.logo).url)
             /\ run.log = Alone(run.opts, run.logo).log

\* Runs 1 and 3 rendered the same options one after the other, with a run
\* on a framed, larger canvas between them; the artifact is that of run 3.
C20_Witness ==
    /\ Len(runs) = 3
    /\ \A r \in Runs : runs[r].pc = "done" /\ ~runs[r].overlap
    /\ runs[1].opts = runs[3].opts
    /\ runs[1].logo = runs[3].logo
    /\ runs[2].opts.frameType = "simple"
    /\ qrDataUrl.run = 3
    /\ Len(qrDataUrl.content) = 2

\* C21: a click on Download while no artifact exists saves no file and
\* raises no notification; with an artifact it saves exactly the displayed
\* artifact (qrDataUrl at the click) as qr-code-<milliseconds>.png and raises
\* one success notification; either way options, logo state, qrDataUrl,
\* canvas and runs stay as they were, and nothing else ever saves a file.
C21_DownloadDisplayedArtifact ==
    [][ /\ (events' # events
              /\ UNCHANGED <<options, logoFile, logoDataUrl, fileInput>>) =>
             /\ UNCHANGED <<qrDataUrl, canvas, runs, reads>>
             /\ IF qrDataUrl = NoArtifact
                THEN saved' = saved /\ toasts' = toasts
                ELSE /\ saved'.href = qrDataUrl
                     /\ \E now \in Instants :
                          saved'.download = <<"qr-code-", now, ".png">>
                     /\ toasts' = [toasts EXCEPT !.downloaded = @ + 1]
        /\ (saved' # saved \/ toasts'.downloaded # toasts.downloaded) =>
             (events' # events /\ UNCHANGED <<options, logoFile, logoDataUrl, fileInput>>)
      ]_vars

\* The first click came before any artifact and saved nothing; the second
\* saved the artifact on display.
C21_Witness ==
    /\ events = 2
    /\ Len(runs) = 1
    /\ fileInput = NoFile
    /\ toasts.downloaded = 1
    /\ qrDataUrl # NoArtifact
    /\ saved.href = qrDataUrl
    /\ saved.download[2] \in Instants

\* C22: for frameType none neither frame-draw site fires; for every other
\* frameType exactly one of the two fires, so a finished run has drawn its
\* frame exactly once; the two tests sort every style into the same two
\* classes.
C22_FrameDrawnOnce ==
    /\ \A ft \in FrameTypes :
         /\ ft = "none" => ~BackgroundFrameTest(ft) /\ ~BorderFrameTest(ft)
         /\ ft # "none" => (BackgroundFrameTest(ft) <=> ~BorderFrameTest(ft))
    /\ \A r \in Runs :
         LET frames == Cardinality(Idx(runs[r].log, "frame"))
             ft     == runs[r].opts.frameType
         IN  /\ frames <= 1
             /\ ft = "none" => frames = 0
             /\ (runs[r].pc \in {"logoDecode", "done"} /\ ft # "none") => frames = 1
             /\ runs[r].pc = "symDecode" =>
                  (frames = 1 <=> ft \in {"speech-bubble", "wavy", "card-style"})

C22_Witness ==
    /\ runs[1].pc = "done"
    /\ runs[1].opts.frameType = "wavy"
    /\ runs[1].logo # NoLogo
    /\ Cardinality(Idx(runs[1].log, "frame")) = 1
    /\ Cardinality(Drawn("frame")) = 1

\* C23: drawFrame hands the context back as it got it: while a run waits
\* for an image after a frame draw the stroke style, line width, fill style
\* and shadow are the defaults of the freshly sized canvas, the frame's
\* settings never outlive the run's frame draw, and every symbol, disc, logo
\* and caption is painted without shadow, the disc in backgroundColor and
\* the caption in bottomTextColor, for every frameType.
C23_FrameLeavesContextState ==
    /\ canvas.stack = <<>>
    /\ canvas.stroke = DefaultDrawState.stroke
    /\ canvas.shadow = NoShadow
    /\ \A r \in Runs :
         (runs[r].pc \in {"symDecode", "logoDecode"} /\ canvas.owner = r) =>
           DrawState(canvas) = DefaultDrawState
    /\ \A i \in 1..Len(canvas.content) :
         LET e == canvas.content[i]
         IN  /\ e.k \in {"symbol", "disc", "logo", "caption"} => e.what.shadow = NoShadow
             /\ e.k = "disc" => e.what.fill = OptsOf(i).backgroundColor
             /\ e.k = "caption" => e.what.fill = OptsOf(i).bottomTextColor

\* A neon frame was stroked with its glow, and the logo and caption of the
\* same run were painted after it.
C23_Witness ==
    /\ runs[1].pc = "done"
    /\ runs[1].opts.frameType = "neon"
    /\ Drawn("frame") # {}
    /\ \E i \in Drawn("logo") : \A j \in Drawn("frame") : j < i
    /\ \E i \in Drawn("caption") : \A j \in Drawn("frame") : j < i

\* C24: a square symbol (and any shape value outside rounded, circle,
\* hexagon) is drawn under the clip of the rectangle that is exactly its
\* size x size region, so no pixel of the symbol image is cropped; a rounded
\* symbol under the clip of that same rectangle with corner radius size / 10.
C24_RectangularClips ==
    /\ \A sh \in {"square", "diamond", ""}, sz \in SliderSizes, x \in {0, 30} :
         ShapePath(sh, x, x, sz) = [kind |-> "rect", x |-> x, y |-> x, w |-> sz, h |-> sz]
    /\ \A i \in Drawn("symbol") :
         LET w == canvas.content[i].what
             o == OptsOf(i)
         IN  o.shape \in {"square", "rounded"} =>
               \E p \in {path[1] : path \in w.region} :
                 /\ w.region = {<<p>>}
                 /\ [x |-> p.x, y |-> p.y, w |-> p.w, h |-> p.h] = w.at
                 /\ p.w = o.size /\ p.h = o.size
                 /\ o.shape = "square" => p.kind = "rect"
                 /\ o.shape = "rounded" =>
                      p.kind = "roundRect" /\ 10 * p.radius = o.size

C24_Witness ==
    /\ runs[1].pc = "done"
    /\ runs[1].opts.shape = "rounded"
    /\ runs[1].opts.size = MaxSize
    /\ runs[1].opts.frameType = "gradient"
    /\ \E i \in Drawn("symbol") :
         \E path \in canvas.content[i].what.region :
           path[1].kind = "roundRect" /\ path[1].radius = 50 /\ path[1].x = 30

\* C25: under every interleaving of file selection, read completion and
\* removeLogo, logoDataUrl is non-empty only while logoFile is set (the
\* Remove button is rendered only then).
C25_LogoOnlyWhileFileSet ==
    logoDataUrl # NoLogo => logoFile # NoFile

\* C26: once two accepted files have both been read, in either order, and
\* nothing was removed, logoDataUrl holds the data of the file selected last,
\* the one logoFile names.
C26_LastSelectedFileWins ==
    (toasts.uploaded = 2 /\ toasts.removed = 0 /\ reads = {}) =>
      logoDataUrl = DataUrlOf(logoFile)

\* C27: the options and logo a run was requested with never change while
\* it exists, and every value the run uses comes from them: the encoder
\* arguments, the canvas size it sets, the frame style, the clip shape, the
\* symbol position and size, the logo image and size, and the caption,
\* whatever the options and logo on screen have become meanwhile.
C27_RunUsesItsSnapshot ==
    /\ [][\A r \in Runs : /\ runs'[r].opts = runs[r].opts
                           /\ runs'[r].logo = runs[r].logo
                           /\ runs'[r].enc = runs[r].enc]_vars
    /\ [](/\ \A r \in Runs :
              LET o == runs[r].opts
              IN  /\ runs[r].enc.text = o.text
                  /\ runs[r].enc.width = o.size
                  /\ runs[r].enc.light = o.backgroundColor
                  /\ runs[r].enc.dark = o.foregroundColor
                  /\ runs[r].enc.margin = o.margin
                  /\ runs[r].enc.errorCorrectionLevel = o.errorCorrectionLevel
          /\ canvas.owner # 0 =>
               LET o == runs[canvas.owner].opts
               IN  /\ canvas.width = o.size + (IF o.frameType = "none" THEN 0 ELSE 60)
                   /\ canvas.height = canvas.width + (IF o.bottomText = "" THEN 0 ELSE 40)
          /\ \A i \in 1..Len(canvas.content) :
               LET e == canvas.content[i]
                   o == runs[e.run].opts
               IN  /\ e.k = "frame" => e.what.style = o.frameType
                   /\ e.k = "symbol" =>
                        /\ e.what.img = runs[e.run].enc
                        /\ e.clip = {o.shape}
                        /\ e.what.at.w = o.size
                        /\ 2 * e.what.at.x = (IF o.frameType = "none" THEN 0 ELSE 60)
                   /\ e.k = "disc" => e.what.fill = o.backgroundColor
                   /\ e.k = "logo" =>
                        /\ runs[e.run].logo # NoLogo
                        /\ e.what.img = runs[e.run].logo
                        /\ 5 * e.what.at.w = o.size
                   /\ e.k = "caption" =>
                        /\ e.what.text = o.bottomText
                        /\ e.what.font.px = o.bottomTextSize)

\* Run 1 drew its symbol with the size and frame it was requested with
\* after the options on screen had changed twice.
C27_Witness ==
    /\ Len(runs) = 3
    /\ runs[1].pc = "done"
    /\ options.size # runs[1].opts.size
    /\ options.frameType # runs[1].opts.frameType
    /\ \E i \in Drawn("symbol") :
         /\ canvas.content[i].run = 1
         /\ canvas.content[i].what.at.w = runs[1].opts.size
         /\ canvas.owner = 3

\* C28: for every size of the slider and every background-class frame, the
\* inset rectangle the frame is painted into (origin frameSize / 10, side
\* frameSize * 8 / 10) strictly contains the symbol region painted over it.
C28_BackgroundFrameShowsAroundSymbol ==
    \A j \in Drawn("frame") :
      canvas.content[j].what.style \in BackgroundStyles =>
        \A i \in Drawn("symbol") :
          LET f == canvas.content[j].what.inset
              a == canvas.content[i].what.at
          IN  /\ f.x < a.x /\ a.x + a.w < f.x + f.w
              /\ f.y < a.y /\ a.y + a.h < f.y + f.h

\* A point or rectangle lies inside the canvas.
OnCanvas(x0, y0, x1, y1) ==
    /\ 0 <= x0 /\ x0 <= x1 /\ x1 <= canvas.width
    /\ 0 <= y0 /\ y0 <= y1 /\ y1 <= canvas.height

\* C29: in every run the symbol region, the backing disc of the logo and
\* the anchor of the caption lie inside the frameSize x totalHeight canvas
\* the run sized, the disc lies inside the symbol region, and the caption
\* anchor lies in the 40 px strip below the frameSize x frameSize area.
C29_DrawsInsideCanvas ==
    /\ \A i \in Drawn("symbol") :
         LET a == canvas.content[i].what.at
         IN  OnCanvas(a.x, a.y, a.x + a.w, a.y + a.h)
    /\ \A i \in Drawn("disc") :
         LET d == canvas.content[i].what.shape
         IN  /\ d.r = OptsOf(i).size \div 10 + 5
             /\ OnCanvas(d.cx - d.r, d.cy - d.r, d.cx + d.r, d.cy + d.r)
             /\ \A j \in Drawn("symbol") :
                  LET a == canvas.content[j].what.at
                  IN  /\ a.x <= d.cx - d.r /\ d.cx + d.r <= a.x + a.w
                      /\ a.y <= d.cy - d.r /\ d.cy + d.r <= a.y + a.h
    /\ \A i \in Drawn("caption") :
         LET c == canvas.content[i].what.anchor
         IN  /\ OnCanvas(c.x, c.y, c.x, c.y)
             /\ canvas.width < c.y /\ c.y < canvas.width + 40
             /\ canvas.height = canvas.width + 40

\* The smallest size, with logo and caption: the disc of radius 25 is inside
\* the 200 x 200 symbol and the caption anchor at y = 225 inside 200 x 240.
C29_Witness ==
    /\ runs[1].pc = "done"
    /\ runs[1].opts.size = MinSize
    /\ runs[1].opts.frameType = "none"
    /\ canvas.height = 240
    /\ \E i \in Drawn("disc") : canvas.content[i].what.shape.r = 25
    /\ \E i \in Drawn("caption") : canvas.content[i].what.anchor.y = 225

\* C30: after any sequence of addLink, updateLink and removeLink the links
\* of the profile have pairwise distinct ids, so that an update or a removal
\* by id touches exactly one link.
C30_DistinctLinkIds ==
    \A i, j \in 1..Len(links) : i # j => links[i].id # links[j].id

=============================================================================
